---- MODULE Spec2Model ----
(***************************************************************************)
(* Model of parser.py: normalize_field_ref and parse_twb (usage map,       *)
(* field catalog, usage resolution).                                       *)
(*                                                                         *)
(* A Python str is a sequence of one-character strings, so that split,     *)
(* strip, startswith, capitalize and join are computed character by        *)
(* character.  None is a value distinct from every str.                    *)
(***************************************************************************)
EXTENDS Integers, Sequences, FiniteSets, TLC

VARIABLES pc, ref, norm1, norm2, usage_map, data, scanned, nds, ds_node,
          ds_info, fields_by_tech, meta_log, col_log

vars == <<pc, ref, norm1, norm2, usage_map, data, scanned, nds, ds_node,
          ds_info, fields_by_tech, meta_log, col_log>>

----------------------------------------------------------------------------
(* Bounds of the model *)

MaxRefLen == 5
MaxWorksheets == 2
MaxDatasources == 1
MaxMeta == 1
MaxCols == 2

----------------------------------------------------------------------------
(* Python values and str primitives *)

None == <<"None">>

Truthy(v) == v # None /\ v # <<>>

Or(a, b) == IF Truthy(a) THEN a ELSE b

Min(S) == CHOOSE m \in S : \A n \in S : m <= n

Max(S) == CHOOSE m \in S : \A n \in S : m >= n

Contains(s, c) == \E i \in 1..Len(s) : s[i] = c

MatchAt(s, sep, i) ==
    /\ i + Len(sep) - 1 <= Len(s)
    /\ SubSeq(s, i, i + Len(sep) - 1) = sep

RECURSIVE Split(_, _)
Split(s, sep) ==
    LET hits == {i \in 1..Len(s) : MatchAt(s, sep, i)}
    IN  IF hits = {} THEN <<s>>
        ELSE LET i == Min(hits)
             IN  <<SubSeq(s, 1, i - 1)>> \o Split(SubSeq(s, i + Len(sep), Len(s)), sep)

Strip(s, chars) ==
    LET keep == {i \in 1..Len(s) : s[i] \notin chars}
    IN  IF keep = {} THEN <<>> ELSE SubSeq(s, Min(keep), Max(keep))

RECURSIVE Join(_, _)
Join(parts, sep) ==
    IF parts = <<>> THEN <<>>
    ELSE IF Len(parts) = 1 THEN parts[1]
    ELSE parts[1] \o sep \o Join(Tail(parts), sep)

StartsWith(s, p) == Len(p) <= Len(s) /\ SubSeq(s, 1, Len(p)) = p

Lowers == <<"a","b","c","d","e","f","g","h","i","j","k","l","m",
            "n","o","p","q","r","s","t","u","v","w","x","y","z">>

Uppers == <<"A","B","C","D","E","F","G","H","I","J","K","L","M",
            "N","O","P","Q","R","S","T","U","V","W","X","Y","Z">>

Ascii == <<" ", "(", ")", ",", ".", "/", "0", "1", "2", ":">> \o Uppers
         \o <<"[", "]">> \o Lowers

Code(c) == CHOOSE i \in 1..Len(Ascii) : Ascii[i] = c

Upper(c) == IF \E i \in 1..Len(Lowers) : Lowers[i] = c
            THEN Uppers[CHOOSE i \in 1..Len(Lowers) : Lowers[i] = c] ELSE c

Lower(c) == IF \E i \in 1..Len(Uppers) : Uppers[i] = c
            THEN Lowers[CHOOSE i \in 1..Len(Uppers) : Uppers[i] = c] ELSE c

Capitalize(s) ==
    [i \in 1..Len(s) |-> IF i = 1 THEN Upper(s[i]) ELSE Lower(s[i])]

RECURSIVE StrLess(_, _)
StrLess(a, b) ==
    IF a = <<>> THEN b # <<>>
    ELSE IF b = <<>> THEN FALSE
    ELSE IF a[1] = b[1] THEN StrLess(Tail(a), Tail(b))
    ELSE Code(a[1]) < Code(b[1])

RECURSIVE Sorted(_)
Sorted(S) ==
    IF S = {} THEN <<>>
    ELSE LET m == CHOOSE a \in S : \A b \in S \ {a} : StrLess(a, b)
         IN  <<m>> \o Sorted(S \ {m})

Range(s) == {s[i] : i \in 1..Len(s)}

----------------------------------------------------------------------------
(* normalize_field_ref *)

NormalizePart(part) ==
    LET clean_part == Strip(part, {"[", "]"})
        sub_parts  == Split(clean_part, <<":">>)
    IN  <<"[">> \o (IF Contains(clean_part, ":") /\ Len(sub_parts) >= 2
                    THEN sub_parts[2] ELSE clean_part) \o <<"]">>

normalize_field_ref(field_ref) ==
    IF ~Truthy(field_ref) THEN field_ref
    ELSE LET parts == Split(field_ref, <<"]", ".", "[">>)
         IN  Join([i \in 1..Len(parts) |-> NormalizePart(parts[i])], <<".">>)

----------------------------------------------------------------------------
(* Reference strings of the normalizer specification *)

RefAlphabet == {"[", "]", ":", ".", "a"}

RECURSIVE SeqsUpTo(_, _)
SeqsUpTo(A, n) ==
    IF n = 0 THEN {<<>>}
    ELSE LET shorter == SeqsUpTo(A, n - 1)
         IN  shorter \cup {Append(s, c) : s \in {t \in shorter : Len(t) = n - 1}, c \in A}

EmptyData == [datasources |-> <<>>, worksheets |-> <<>>,
              dashboards |-> <<>>, parameters |-> <<>>]

EmptyMap == [k \in {} |-> <<>>]

InitRest ==
    /\ usage_map = EmptyMap
    /\ data = EmptyData
    /\ scanned = <<>>
    /\ nds = 0
    /\ ds_node = None
    /\ ds_info = None
    /\ fields_by_tech = <<>>
    /\ meta_log = <<>>
    /\ col_log = <<>>

parseVars == <<usage_map, data, scanned, nds, ds_node, ds_info,
               fields_by_tech, meta_log, col_log>>

InitNorm ==
    /\ pc = "ref"
    /\ ref \in SeqsUpTo(RefAlphabet, MaxRefLen)
    /\ norm1 = None
    /\ norm2 = None
    /\ InitRest

NormalizeOnce ==
    /\ pc = "ref"
    /\ norm1' = normalize_field_ref(ref)
    /\ pc' = "norm1"
    /\ UNCHANGED <<ref, norm2, parseVars>>

NormalizeTwice ==
    /\ pc = "norm1"
    /\ norm2' = normalize_field_ref(norm1)
    /\ pc' = "norm2"
    /\ UNCHANGED <<ref, norm1, parseVars>>

NextNorm == NormalizeOnce \/ NormalizeTwice

SpecNorm == InitNorm /\ [][NextNorm]_vars

----------------------------------------------------------------------------
(* Literals *)

S_Row == <<"R","o","w">>
S_Column == <<"C","o","l","u","m","n">>
S_Filter == <<"F","i","l","t","e","r">>
S_Sheet1 == <<"S","h","e","e","t","1">>
S_Sheet2 == <<"S","h","e","e","t","2">>
S_Sales == <<"[","S","a","l","e","s","]">>
S_Region == <<"[","R","e","g","i","o","n","]">>
S_D == <<"D">>
S_DSales == <<"[","D","]",".","[","S","a","l","e","s","]">>
S_DTaggedSales == <<"[","D","]",".","[","n","o","n","e",":","S","a","l","e","s",":","n","k","]">>
S_SumSalesRegion == <<"(","s","u","m","(","S","a","l","e","s",")",")","/","[","R","e","g","i","o","n","]">>
S_SalesSales == <<"[","S","a","l","e","s","]","/","[","S","a","l","e","s","]">>

----------------------------------------------------------------------------
(* parse_twb, step 1: the usage map.  usage_map is a dict keyed by the     *)
(* normalized reference; each value is an insertion-ordered dict, kept as   *)
(* a sequence of [ws, roles] entries, roles being a Python list.           *)

HasKey(m, k) == k \in DOMAIN m

WsIndex(entries, ws) == {i \in 1..Len(entries) : entries[i].ws = ws}

AppendRole(entries, ws, role) ==
    IF WsIndex(entries, ws) = {}
    THEN Append(entries, [ws |-> ws, roles |-> <<role>>])
    ELSE [i \in 1..Len(entries) |->
            IF entries[i].ws = ws
            THEN [entries[i] EXCEPT !.roles = Append(@, role)]
            ELSE entries[i]]

Register(m, k, ws, role) ==
    LET old == IF HasKey(m, k) THEN m[k] ELSE <<>>
    IN  [x \in DOMAIN m \cup {k} |->
            IF x = k THEN AppendRole(old, ws, role) ELSE m[x]]

RECURSIVE RegisterAll(_, _, _, _)
RegisterAll(m, keys, ws, role) ==
    IF keys = <<>> THEN m
    ELSE RegisterAll(Register(m, keys[1], ws, role), Tail(keys), ws, role)

SelectNonEmpty(seq) == SelectSeq(seq, LAMBDA f : f # <<>>)

ShelfFields(text) ==
    LET tokens   == Split(text, <<"/">>)
        stripped == [i \in 1..Len(tokens) |-> Strip(tokens[i], {"(", ")"})]
        fields   == SelectNonEmpty(stripped)
    IN  [i \in 1..Len(fields) |-> normalize_field_ref(fields[i])]

ShelfKeys(text) == IF Truthy(text) THEN ShelfFields(text) ELSE <<>>

\* ws.find(".//column"): the first column element below the worksheet
FindCols(ws) == IF ws.columns = <<>> THEN None ELSE ws.columns[1].text

\* ws.findall(".//filter"): the column attributes that are set
FilterKeys(ws) ==
    LET set == SelectSeq(ws.filters, LAMBDA c : Truthy(c))
    IN  [i \in 1..Len(set) |-> normalize_field_ref(set[i])]

\* ws.findall(".//slices/column"): the column elements below slices, with text
SliceKeys(ws) ==
    LET set == SelectSeq(ws.columns, LAMBDA c : c.parent = "slices" /\ Truthy(c.text))
    IN  [i \in 1..Len(set) |-> normalize_field_ref(set[i].text)]

ScanOne(m, ws) ==
    LET m1 == RegisterAll(m, ShelfKeys(ws.rows), ws.name, S_Row)
        m2 == RegisterAll(m1, ShelfKeys(FindCols(ws)), ws.name, S_Column)
        m3 == RegisterAll(m2, FilterKeys(ws), ws.name, S_Filter)
    IN  RegisterAll(m3, SliceKeys(ws), ws.name, S_Filter)

catalogVars == <<nds, ds_node, ds_info, fields_by_tech, meta_log, col_log>>

ScanWorksheet(ws) ==
    /\ pc = "worksheets"
    /\ Len(scanned) < MaxWorksheets
    /\ scanned' = Append(scanned, ws)
    /\ IF ~Truthy(ws.name)
       THEN UNCHANGED <<usage_map, data>>
       ELSE /\ data' = [data EXCEPT !.worksheets = Append(@, ws.name)]
            /\ usage_map' = ScanOne(usage_map, ws)
    /\ UNCHANGED <<pc, ref, norm1, norm2, catalogVars>>

\* step 2: root.findall(".//dashboard"), the named ones
ExtractDashboards(names) ==
    /\ pc = "worksheets"
    /\ data' = [data EXCEPT !.dashboards = SelectSeq(names, LAMBDA n : Truthy(n))]
    /\ pc' = "datasources"
    /\ UNCHANGED <<ref, norm1, norm2, usage_map, scanned, catalogVars>>

S_Dash == <<"D","a","s","h">>

DashboardNodes == {<<>>, <<None, S_Dash>>}

Col(parent, text) == [parent |-> parent, text |-> text]

WsNames == {None, S_Sheet1, S_Sheet2}

RowsTexts == {None, S_SumSalesRegion, S_SalesSales, S_DTaggedSales}

ColumnNodes == {<<>>,
                <<Col("table", S_Region)>>,
                <<Col("slices", S_Sales)>>,
                <<Col("table", S_Region), Col("slices", S_Sales)>>,
                <<Col("slices", S_Sales), Col("table", S_Region)>>}

FilterNodes == {<<>>, <<None>>, <<S_Sales>>, <<S_DTaggedSales, S_Sales>>}

Worksheets == [name : WsNames, rows : RowsTexts, columns : ColumnNodes,
               filters : FilterNodes]

InitParse ==
    /\ pc = "worksheets"
    /\ ref = None
    /\ norm1 = None
    /\ norm2 = None
    /\ InitRest

ScanStep ==
    /\ pc = "worksheets"
    /\ \E ws \in Worksheets : ScanWorksheet(ws)

DashboardStep == \E names \in DashboardNodes : ExtractDashboards(names)

NextUsage == ScanStep \/ DashboardStep

SpecUsage == InitParse /\ [][NextUsage]_vars

(* What the usage map holds *)

RolesOf(m, k, ws) ==
    IF HasKey(m, k) /\ WsIndex(m[k], ws) # {}
    THEN m[k][CHOOSE i \in WsIndex(m[k], ws) : TRUE].roles
    ELSE <<>>

HasRole(m, k, ws, role) == role \in Range(RolesOf(m, k, ws))

Named(i) == Truthy(scanned[i].name)

\* C1: a worksheet Sheet1 whose rows text is "(sum(Sales))/[Region]" registers
\* [Sales] and [Region], each with role Row for Sheet1.
C1_RowsExample ==
    \A i \in 1..Len(scanned) :
        (scanned[i].name = S_Sheet1 /\ scanned[i].rows = S_SumSalesRegion)
        => /\ HasRole(usage_map, S_Sales, S_Sheet1, S_Row)
           /\ HasRole(usage_map, S_Region, S_Sheet1, S_Row)

\* C2: in every state of the usage map, each role is recorded at most once per
\* (canonical field id, worksheet name) pair.
C2_RoleOnce ==
    \A k \in DOMAIN usage_map : \A i \in 1..Len(usage_map[k]) :
        LET roles == usage_map[k][i].roles
        IN  Len(roles) = Cardinality(Range(roles))

\* The references of the columns-shelf text of the worksheets named ws: the text
\* of the column element of the table, not of a slices entry.
ColumnsShelfKeys(ws) ==
    UNION {Range(ShelfKeys(scanned[i].columns[j].text)) :
             <<i, j>> \in {p \in (1..Len(scanned)) \X (1..2) :
                             /\ scanned[p[1]].name = ws
                             /\ p[2] <= Len(scanned[p[1]].columns)
                             /\ scanned[p[1]].columns[p[2]].parent = "table"}}

\* C8: role Column is registered for a field on a worksheet exactly for the
\* references of that worksheet's columns-shelf text.
C8_ColumnExactlyShelf ==
    \A i \in 1..Len(scanned) : Named(i) =>
        \A k \in DOMAIN usage_map \cup ColumnsShelfKeys(scanned[i].name) :
            HasRole(usage_map, k, scanned[i].name, S_Column)
            <=> k \in ColumnsShelfKeys(scanned[i].name)

----------------------------------------------------------------------------
(* parse_twb, step 3: data sources, parameters, the field catalog *)

S_Empty == <<>>
S_Parameters == <<"P","a","r","a","m","e","t","e","r","s">>
S_Parameters1 == <<"P","a","r","a","m","e","t","e","r","s","1">>
S_Orders == <<"O","r","d","e","r","s">>
S_Calculation == <<"C","a","l","c","u","l","a","t","i","o","n">>
S_NotUsed == <<"N","o","t"," ","U","s","e","d">>
S_federated == <<"f","e","d","e","r","a","t","e","d">>
S_sqlserver == <<"s","q","l","s","e","r","v","e","r">>
S_relation == <<"r","e","l","a","t","i","o","n">>
S_LegacyMarker == <<"O","b","j","e","c","t","M","o","d","e","l","E","n","c","a","p","s","u","l","a","t","e","L","e","g","a","c","y">>
S_DotTrue == <<".","t","r","u","e">>
S_LegacyFalseRelation == <<"O","b","j","e","c","t","M","o","d","e","l","E","n","c","a","p","s","u","l","a","t","e","L","e","g","a","c","y",".","f","a","l","s","e",".","r","e","l","a","t","i","o","n">>
S_LegacyTrueRelation == <<"O","b","j","e","c","t","M","o","d","e","l","E","n","c","a","p","s","u","l","a","t","e","L","e","g","a","c","y",".","t","r","u","e",".","r","e","l","a","t","i","o","n">>
S_Select1 == <<" ","S","E","L","E","C","T"," ","1"," ">>
S_Select1Trimmed == <<"S","E","L","E","C","T"," ","1">>
S_Select2 == <<"S","E","L","E","C","T"," ","2">>
S_string == <<"s","t","r","i","n","g">>
S_integer == <<"i","n","t","e","g","e","r">>
S_measure == <<"m","e","a","s","u","r","e">>
S_Rev == <<"R","e","v">>
S_BrRev == <<"[","R","e","v","]">>
S_Sheet1FilterRow == <<"S","h","e","e","t","1"," ","(","F","i","l","t","e","r","/","R","o","w",")">>
S_One == <<"1">>
S_Calc == <<"[","C","a","l","c","]">>
S_BrParam == <<"[","P","]">>
Brackets == {"[", "]"}

Whitespace == {" ", "\t", "\n", "\r"}

Find(s, sub) == \E i \in 1..(Len(s) + 1) : MatchAt(s, sub, i)

IsParameters(ds) ==
    \/ Or(ds.caption, ds.name) = S_Parameters
    \/ (Truthy(ds.name) /\ StartsWith(ds.name, S_Parameters))

ParameterNamesRaw(columns) ==
    LET p_names == [i \in 1..Len(columns) |-> Or(columns[i].caption, columns[i].name)]
    IN  SelectSeq(p_names, LAMBDA p : Truthy(p))

ParameterNames(columns) ==
    LET p_names == [i \in 1..Len(columns) |-> Or(columns[i].caption, columns[i].name)]
        set     == SelectSeq(p_names, LAMBDA p : Truthy(p))
    IN  [i \in 1..Len(set) |-> Strip(set[i], Brackets)]

Connections(nodes) ==
    LET real == SelectSeq(nodes, LAMBDA c : Truthy(c.class) /\ c.class # S_federated)
    IN  [i \in 1..Len(real) |->
            [class |-> real[i].class, server |-> real[i].server, dbname |-> real[i].dbname]]

IsQueryNode(rel) ==
    /\ ~(Find(rel.tag, S_LegacyMarker) /\ ~Find(rel.tag, S_DotTrue))
    /\ Find(rel.tag, S_relation)
    /\ Truthy(rel.text)
    /\ Truthy(Strip(rel.text, Whitespace))

RECURSIVE Queries(_, _)
Queries(nodes, found_queries) ==
    IF nodes = <<>> THEN found_queries
    ELSE LET query_text == Strip(nodes[1].text, Whitespace)
         IN  IF IsQueryNode(nodes[1]) /\ query_text \notin Range(found_queries)
             THEN Queries(Tail(nodes), Append(found_queries, query_text))
             ELSE Queries(Tail(nodes), found_queries)

(* fields_by_tech: an insertion-ordered dict keyed by the raw technical name *)

HasField(fields, k) == \E i \in 1..Len(fields) : fields[i].tech_name = k

Field(fields, k) == fields[CHOOSE i \in 1..Len(fields) : fields[i].tech_name = k]

PutField(fields, rec) ==
    IF HasField(fields, rec.tech_name)
    THEN [i \in 1..Len(fields) |->
            IF fields[i].tech_name = rec.tech_name THEN rec ELSE fields[i]]
    ELSE Append(fields, rec)

FromMetadata(mr) ==
    [tech_name |-> mr.local_name,
     name      |-> Or(mr.remote_name, Strip(mr.local_name, Brackets)),
     role      |-> S_Empty,
     datatype  |-> Or(mr.local_type, S_Empty),
     formula   |-> S_Empty,
     usage     |-> S_Empty]

FromColumn(col) ==
    [tech_name |-> col.name,
     name      |-> Or(col.caption, Strip(col.name, Brackets)),
     role      |-> S_Empty,
     datatype  |-> S_Empty,
     formula   |-> S_Empty,
     usage     |-> S_Empty]

ApplyCalculationErasing(f, calc) ==
    IF calc.present
    THEN [f EXCEPT !.formula = Or(calc.formula, S_Empty), !.role = S_Calculation,
                   !.datatype = S_Empty]
    ELSE f

ApplyCalculation(f, calc) ==
    IF calc.present
    THEN [f EXCEPT !.formula = Or(calc.formula, S_Empty), !.role = S_Calculation]
    ELSE f

ApplyColumn(field_obj, col) ==
    LET f1 == IF Truthy(col.caption) THEN [field_obj EXCEPT !.name = col.caption]
              ELSE field_obj
        f2 == IF Truthy(col.role) THEN [f1 EXCEPT !.role = Capitalize(col.role)] ELSE f1
        f3 == IF Truthy(col.datatype) THEN [f2 EXCEPT !.datatype = Capitalize(col.datatype)]
              ELSE f2
    IN  ApplyCalculation(f3, col.calc)

EnrichFromColumn(fields, col) ==
    LET known == IF HasField(fields, col.name) THEN fields
                 ELSE Append(fields, FromColumn(col))
    IN  PutField(known, ApplyColumn(Field(known, col.name), col))

(* The usage resolver *)

CandidatesRawOnly(tech_name, ds_tech_prefix) == <<tech_name>>

Candidates(tech_name, ds_tech_prefix) ==
    IF Truthy(ds_tech_prefix)
       /\ ~StartsWith(tech_name, <<"[">> \o ds_tech_prefix \o <<"]">>)
    THEN <<tech_name, <<"[">> \o ds_tech_prefix \o <<"]", ".">> \o tech_name>>
    ELSE <<tech_name>>

\* usage_info.setdefault(ws_name, set()).update(roles), for each entry in turn
RECURSIVE MergeEntries(_, _)
MergeEntries(info, entries) ==
    IF entries = <<>> THEN info
    ELSE LET e    == entries[1]
             next == IF WsIndex(info, e.ws) = {}
                     THEN Append(info, [ws |-> e.ws, roles |-> Range(e.roles)])
                     ELSE [i \in 1..Len(info) |->
                             IF info[i].ws = e.ws
                             THEN [info[i] EXCEPT !.roles = @ \cup Range(e.roles)]
                             ELSE info[i]]
         IN  MergeEntries(next, Tail(entries))

RECURSIVE UsageInfo(_, _, _)
UsageInfo(m, tech_names_to_check, info) ==
    IF tech_names_to_check = <<>> THEN info
    ELSE LET tn == tech_names_to_check[1]
         IN  UsageInfo(m, Tail(tech_names_to_check),
                       IF HasKey(m, tn) THEN MergeEntries(info, m[tn]) ELSE info)

RECURSIVE Unsorted(_)
Unsorted(S) ==
    IF S = {} THEN <<>>
    ELSE LET m == CHOOSE a \in S : \A b \in S \ {a} : StrLess(b, a)
         IN  <<m>> \o Unsorted(S \ {m})

SortedRoles(roles) == Sorted(roles)

UsageString(info) ==
    LET usage_str_parts ==
            [i \in 1..Len(info) |->
                info[i].ws \o <<" ", "(">> \o Join(SortedRoles(info[i].roles), <<"/">>)
                \o <<")">>]
    IN  IF usage_str_parts # <<>> THEN Join(usage_str_parts, <<",", " ">>)
        ELSE S_NotUsed

ResolveUsage(m, tech_name, ds_tech_prefix) ==
    UsageString(UsageInfo(m, Candidates(tech_name, ds_tech_prefix), <<>>))

FinalFields(m, fields, tech) ==
    LET ds_tech_prefix == IF Truthy(tech) THEN tech ELSE S_Empty
    IN  [i \in 1..Len(fields) |->
            [fields[i] EXCEPT !.usage = ResolveUsage(m, fields[i].tech_name, ds_tech_prefix)]]

KeepAlways(info) == TRUE

KeepDatasource(info) ==
    info.connections # <<>> \/ info.queries # <<>> \/ info.fields # <<>>

(* The steps of the data source loop *)

BeginDatasource(ds) ==
    /\ pc = "datasources"
    /\ nds < MaxDatasources
    /\ nds' = nds + 1
    /\ IF IsParameters(ds)
       THEN /\ data' = [data EXCEPT !.parameters = @ \o ParameterNames(ds.columns)]
            /\ UNCHANGED <<pc, ds_node, ds_info>>
       ELSE IF ~Truthy(Or(ds.caption, ds.name))
       THEN UNCHANGED <<pc, data, ds_node, ds_info>>
       ELSE /\ ds_node' = ds
            /\ ds_info' = [name        |-> Or(ds.caption, ds.name),
                           tech_name   |-> ds.name,
                           connections |-> Connections(ds.connections),
                           queries     |-> Queries(ds.relations, <<>>),
                           fields      |-> <<>>]
            /\ pc' = "metadata"
            /\ UNCHANGED data
    /\ UNCHANGED <<ref, norm1, norm2, usage_map, scanned, fields_by_tech, meta_log, col_log>>

MetadataRecord ==
    /\ pc = "metadata"
    /\ Len(meta_log) < Len(ds_node.metadata)
    /\ LET mr == ds_node.metadata[Len(meta_log) + 1]
       IN  /\ meta_log' = Append(meta_log, mr)
           /\ fields_by_tech' = IF mr.class = "column" /\ Truthy(mr.local_name)
                                THEN PutField(fields_by_tech, FromMetadata(mr))
                                ELSE fields_by_tech
    /\ UNCHANGED <<pc, ref, norm1, norm2, usage_map, data, scanned, nds, ds_node,
                   ds_info, col_log>>

ColumnDef ==
    /\ pc \in {"metadata", "columns"}
    /\ Len(meta_log) = Len(ds_node.metadata)
    /\ Len(col_log) < Len(ds_node.columns)
    /\ LET col == ds_node.columns[Len(col_log) + 1]
       IN  /\ col_log' = Append(col_log, col)
           /\ fields_by_tech' = IF Truthy(col.name)
                                THEN EnrichFromColumn(fields_by_tech, col)
                                ELSE fields_by_tech
    /\ pc' = "columns"
    /\ UNCHANGED <<ref, norm1, norm2, usage_map, data, scanned, nds, ds_node,
                   ds_info, meta_log>>

FinalizeDatasource ==
    /\ pc \in {"metadata", "columns"}
    /\ Len(meta_log) = Len(ds_node.metadata)
    /\ Len(col_log) = Len(ds_node.columns)
    /\ LET info == [ds_info EXCEPT
                      !.fields = FinalFields(usage_map, fields_by_tech, ds_info.tech_name)]
       IN  data' = IF KeepDatasource(info)
                   THEN [data EXCEPT !.datasources = Append(@, info)]
                   ELSE data
    /\ pc' = "datasources"
    /\ ds_node' = None
    /\ ds_info' = None
    /\ fields_by_tech' = <<>>
    /\ meta_log' = <<>>
    /\ col_log' = <<>>
    /\ UNCHANGED <<ref, norm1, norm2, usage_map, scanned, nds>>

Return ==
    /\ pc = "datasources"
    /\ pc' = "done"
    /\ UNCHANGED <<ref, norm1, norm2, parseVars>>

----------------------------------------------------------------------------
(* Documents *)

Conn(class) == [class |-> class, server |-> None, dbname |-> None]

Rel(tag, text) == [tag |-> tag, text |-> text]

Meta(class, local_name, remote_name, local_type) ==
    [class |-> class, local_name |-> local_name, remote_name |-> remote_name,
     local_type |-> local_type]

Calc(present, formula) == [present |-> present, formula |-> formula]

NoCalc == Calc(FALSE, None)

ColumnNode(name, caption, role, datatype, calc) ==
    [name |-> name, caption |-> caption, role |-> role, datatype |-> datatype,
     calc |-> calc]

Datasource(caption, name, connections, relations, metadata, columns) ==
    [caption |-> caption, name |-> name, connections |-> connections,
     relations |-> relations, metadata |-> metadata, columns |-> columns]

(* The catalog specification: a document without worksheets and with one   *)
(* data source, whose metadata records and column definitions vary.        *)

MetaNodes == {Meta("column", S_Sales, None, S_string),
              Meta("column", S_Sales, S_Rev, None),
              Meta("measure", S_Sales, None, S_integer),
              Meta("column", None, S_Rev, S_string)}

ColNodes ==
    {ColumnNode(S_Sales, None, r, d, c) :
        r \in {None, S_measure}, d \in {None, S_integer},
        c \in {NoCalc, Calc(TRUE, None), Calc(TRUE, S_One)}}
    \cup {ColumnNode(None, S_Rev, None, None, NoCalc),
          ColumnNode(S_Calc, S_Rev, None, None, Calc(TRUE, S_One))}

CatalogDatasources ==
    {Datasource(S_Orders, S_D, <<>>, <<>>, ms, cs) :
        ms \in SeqsUpTo(MetaNodes, MaxMeta), cs \in SeqsUpTo(ColNodes, MaxCols)}

DashboardOnly == ExtractDashboards(<<S_Dash>>)

BeginOnly ==
    /\ pc = "datasources"
    /\ nds = 0
    /\ \E ds \in CatalogDatasources : BeginDatasource(ds)

NextCatalog ==
    \/ DashboardOnly
    \/ BeginOnly
    \/ MetadataRecord
    \/ ColumnDef
    \/ FinalizeDatasource
    \/ Return

SpecCatalog == InitParse /\ [][NextCatalog]_vars

(* The whole parse: a few worksheets, then data sources of every kind *)

MainWorksheets ==
    {[name |-> S_Sheet1, rows |-> S_Sales, columns |-> <<>>, filters |-> <<S_Sales>>],
     [name |-> S_Sheet2, rows |-> S_DTaggedSales,
      columns |-> <<Col("table", S_Region)>>, filters |-> <<>>],
     [name |-> S_Sheet1, rows |-> S_SalesSales, columns |-> <<>>,
      filters |-> <<S_DTaggedSales>>]}

MainConnections == {<<Conn(S_federated)>>, <<Conn(S_federated), Conn(S_sqlserver)>>}

MainRelations == {<<>>,
                  <<Rel(S_relation, S_Select1), Rel(S_LegacyFalseRelation, S_Select2),
                    Rel(S_LegacyTrueRelation, S_Select1Trimmed)>>}

\* the metadata records and the column elements of a data source
MainFieldNodes ==
    {<<<<>>, <<>>>>,
     <<<<Meta("column", S_Sales, None, S_string)>>,
       <<ColumnNode(S_DSales, S_BrRev, None, None, NoCalc),
         ColumnNode(S_BrParam, None, S_measure, None, NoCalc)>>>>}

MainDatasources ==
    {Datasource(c, n, cn, rl, fs[1], fs[2]) :
        c \in {None, S_Parameters, S_Orders}, n \in {None, S_D, S_Parameters1},
        cn \in MainConnections, rl \in MainRelations, fs \in MainFieldNodes}

ScanMain ==
    /\ pc = "worksheets"
    /\ \E ws \in MainWorksheets : ScanWorksheet(ws)

BeginMain ==
    /\ pc = "datasources"
    /\ \E ds \in MainDatasources : BeginDatasource(ds)

Next ==
    \/ ScanMain
    \/ DashboardOnly
    \/ BeginMain
    \/ MetadataRecord
    \/ ColumnDef
    \/ FinalizeDatasource
    \/ Return

Spec == InitParse /\ [][Next]_vars

----------------------------------------------------------------------------
(* The field catalog (SpecCatalog) *)

AfterColumn == pc = "columns" /\ col_log # <<>>

LastCol == col_log[Len(col_log)]

MetaFor(n) ==
    {i \in 1..Len(meta_log) : meta_log[i].class = "column" /\ meta_log[i].local_name = n}

ColsFor(n) == {i \in 1..Len(col_log) : col_log[i].name = n}

BothPassesDone ==
    /\ pc \in {"metadata", "columns"}
    /\ Len(meta_log) = Len(ds_node.metadata)
    /\ Len(col_log) = Len(ds_node.columns)

C9_CalculationAlwaysWins ==
    AfterColumn =>
        \A i \in 1..Len(col_log) :
            (Truthy(col_log[i].name) /\ col_log[i].calc.present)
            => Field(fields_by_tech, col_log[i].name).role = S_Calculation

----------------------------------------------------------------------------
(* The result (Spec) *)

\* The usage-map keys of a field: its raw technical name and, when the data
\* source's technical name D is non-empty and the name does not start with
\* "[D]", also "[D].<name>".
LookupKeys(tech_name, D) ==
    {tech_name} \cup
    (IF Truthy(D) /\ ~StartsWith(tech_name, <<"[">> \o D \o <<"]">>)
     THEN {<<"[">> \o D \o <<"]", ".">> \o tech_name} ELSE {})

StoredRoles(keys, ws) == UNION {Range(RolesOf(usage_map, k, ws)) : k \in keys}

\* Reading a usage string back: its entries, and the worksheet and roles of each
UsageEntries(usage) == Split(usage, <<",", " ">>)

OpenAt(entry) == Min({i \in 1..Len(entry) : MatchAt(entry, <<" ", "(">>, i)})

WellFormedEntry(entry) ==
    /\ \E i \in 1..Len(entry) : MatchAt(entry, <<" ", "(">>, i)
    /\ entry[Len(entry)] = ")"

EntryWs(entry) == SubSeq(entry, 1, OpenAt(entry) - 1)

EntryRoles(entry) == Split(SubSeq(entry, OpenAt(entry) + 2, Len(entry) - 1), <<"/">>)

ReportedRoles(usage, ws) ==
    IF usage = S_NotUsed THEN {}
    ELSE UNION {Range(EntryRoles(e)) : e \in {x \in Range(UsageEntries(usage)) :
                                                 WellFormedEntry(x) /\ EntryWs(x) = ws}}

WellFormedUsage(usage) ==
    LET entries == UsageEntries(usage)
    IN  /\ \A i \in 1..Len(entries) :
              /\ WellFormedEntry(entries[i])
              /\ LET roles == EntryRoles(entries[i])
                 IN  /\ Range(roles) \subseteq {S_Row, S_Column, S_Filter}
                     /\ \A j \in 1..(Len(roles) - 1) : StrLess(roles[j], roles[j + 1])
        /\ \A i, j \in 1..Len(entries) :
              i # j => EntryWs(entries[i]) # EntryWs(entries[j])

ResultFields ==
    {<<data.datasources[i].tech_name, data.datasources[i].fields[j]>> :
        <<i, j>> \in {p \in (1..Len(data.datasources)) \X (1..4) :
                        p[2] <= Len(data.datasources[p[1]].fields)}}

\* C5: every field's usage string is non-empty and is "Not Used" exactly when no
\* candidate identity is in the usage map, and otherwise a ", "-joined list of
\* "<worksheet> (<roles>)" entries, each worksheet once, its roles distinct,
\* sorted and joined by "/"; Row and Filter on Sheet1 give "Sheet1 (Filter/Row)".
C5_UsageString ==
    \A r \in ResultFields :
        LET keys  == LookupKeys(r[2].tech_name, r[1])
            usage == r[2].usage
        IN  /\ usage # <<>>
            /\ usage = S_NotUsed <=> keys \cap DOMAIN usage_map = {}
            /\ usage # S_NotUsed => WellFormedUsage(usage)
            /\ (/\ StoredRoles(keys, S_Sheet1) = {S_Row, S_Filter}
                /\ StoredRoles(keys, S_Sheet2) = {})
               => usage = S_Sheet1FilterRow

C5_Witness ==
    \E r \in ResultFields :
        /\ r[2].tech_name = S_Sales
        /\ r[2].usage = S_Sheet1FilterRow
        /\ Len(RolesOf(usage_map, S_Sales, S_Sheet1)) > 2

\* C6: a data source whose caption is "Parameters" or whose technical name starts
\* with "Parameters" never becomes an entry of datasources, and the caption of
\* every column inside it is in parameters, brackets stripped.
C6_ParametersRedirected ==
    /\ [](\A i \in 1..Len(data.datasources) :
             /\ data.datasources[i].name # S_Parameters
             /\ ~(Truthy(data.datasources[i].tech_name)
                  /\ StartsWith(data.datasources[i].tech_name, S_Parameters)))
    /\ [][(pc = "datasources" /\ nds' # nds) =>
             \A ds \in {d \in MainDatasources :
                           \/ d.caption = S_Parameters
                           \/ (Truthy(d.name) /\ StartsWith(d.name, S_Parameters))} :
                BeginDatasource(ds)
                => /\ data'.datasources = data.datasources
                   /\ pc' = "datasources"
                   /\ \A j \in 1..Len(ds.columns) :
                         Truthy(ds.columns[j].caption)
                         => Strip(ds.columns[j].caption, Brackets)
                               \in Range(data'.parameters)]_vars

C6_Witness ==
    /\ nds = 1
    /\ pc = "datasources"
    /\ data.datasources = <<>>
    /\ S_Rev \in Range(data.parameters)

\* C7: every entry of datasources has at least one connection, one query or one
\* field.
C7_NoEmptyDatasource ==
    \A i \in 1..Len(data.datasources) :
        \/ data.datasources[i].connections # <<>>
        \/ data.datasources[i].queries # <<>>
        \/ data.datasources[i].fields # <<>>

C7_Witness ==
    \E i \in 1..Len(data.datasources) :
        /\ data.datasources[i].connections = <<>>
        /\ data.datasources[i].queries = <<>>
        /\ data.datasources[i].fields # <<>>

\* C10: the roles a field's usage reports for a worksheet are the union of the
\* roles stored for that worksheet under the field's lookup keys, the raw
\* technical name and, when D is non-empty and the name does not start with
\* "[D]", "[D].<name>"; no other key contributes.
C10_LookupKeys ==
    \A r \in ResultFields :
        /\ \A ws \in Range(data.worksheets) :
              ReportedRoles(r[2].usage, ws) = StoredRoles(LookupKeys(r[2].tech_name, r[1]), ws)
        /\ r[2].usage # S_NotUsed
           => \A e \in Range(UsageEntries(r[2].usage)) : EntryWs(e) \in Range(data.worksheets)

C10_Witness ==
    \E r \in ResultFields :
        /\ r[1] = S_D
        /\ r[2].tech_name = S_Sales
        /\ {S_Sales, S_DSales, S_Region} \subseteq DOMAIN usage_map
        /\ ReportedRoles(r[2].usage, S_Sheet1) = {S_Row, S_Filter}
        /\ ReportedRoles(r[2].usage, S_Sheet2) = {S_Row}

\* C3: normalize_field_ref is idempotent on every reference string.
C3_Idempotent == pc = "norm2" => norm2 = norm1

====
